---- MODULE Spec2Model ----
(***************************************************************************)
(* Model of src/theme/SearchBar/index.js (docusaurus-search-local):        *)
(*   - the term codec of the `highlight` query parameter,                  *)
(*   - the result ranking of the autocomplete source,                      *)
(*   - selection, navigation and the highlight effect,                     *)
(*   - the load gate of the search index.                                  *)
(* Each part has its own specification over the shared variables.          *)
(*                                                                         *)
(* A string is a sequence of one-character strings.                        *)
(***************************************************************************)
EXTENDS Integers, Sequences, FiniteSets, TLC

\* ---------------------------------------------------------------- bounds
MaxTermLen == 3
MaxTerms == 2
MaxNavTerms == 2
MaxResults == 20
MaxScore == 2
MaxNavigations == 2
MaxIntents == 4

VARIABLES
  \* term codec
  termSeq, fragment, decoded, codecPc,
  \* result ranking
  queryResult, documents, results, rankPc,
  \* selection, navigation, highlight effect
  suggestion, location, dom, pendingEffect, lastChange, pushes, url,
  navigations, param, terms, outcome, marks, teardown, runs,
  \* load gate
  production, indexState, focusAfterIndexLoaded, indexFetch, autoCompleteLoad,
  fetchIndexCalls, fetchAutoCompleteCalls, loadPc, widgets, inputFocused,
  isSearchBarExpanded, iconClick, intents, lateIntent,
  \* versions and the query of the source
  versioningEnabled, versionToSearch, sourceVersion, input, query

codecVars == <<termSeq, fragment, decoded, codecPc>>
rankVars == <<queryResult, documents, results, rankPc>>
navVars == <<suggestion, location, dom, pendingEffect, lastChange, pushes, url,
             navigations, param, terms, outcome, marks, teardown, runs>>
gateVars == <<production, indexState, focusAfterIndexLoaded, indexFetch,
              autoCompleteLoad, fetchIndexCalls, fetchAutoCompleteCalls, loadPc,
              widgets, inputFocused, isSearchBarExpanded, iconClick, intents,
              lateIntent>>
queryVars == <<versioningEnabled, versionToSearch, sourceVersion, input, query>>
vars == <<codecVars, rankVars, navVars, gateVars, queryVars>>

\* What an operation of one part leaves alone: the other parts.
notCodec == <<rankVars, navVars, gateVars, queryVars>>
notRank == <<codecVars, navVars, gateVars, versioningEnabled, versionToSearch,
             sourceVersion>>
notNav == <<codecVars, rankVars, gateVars, queryVars>>
notGate == <<codecVars, rankVars, navVars, versioningEnabled, versionToSearch,
             input, query>>

\* ------------------------------------------------------- string helpers
RECURSIVE StringsUpTo(_, _)
StringsUpTo(chars, n) ==
  IF n = 0 THEN {<<>>}
  ELSE LET shorter == StringsUpTo(chars, n - 1)
       IN shorter \cup {Append(s, c) : s \in shorter, c \in chars}

RECURSIVE SeqsUpTo(_, _)
SeqsUpTo(S, n) ==
  IF n = 0 THEN {<<>>}
  ELSE LET shorter == SeqsUpTo(S, n - 1)
       IN shorter \cup {Append(s, x) : s \in shorter, x \in S}

RECURSIVE Flatten(_)
Flatten(ss) == IF ss = <<>> THEN <<>> ELSE Head(ss) \o Flatten(Tail(ss))

Min(a, b) == IF a < b THEN a ELSE b

\* String.prototype.startsWith
StartsWith(s, prefix) ==
  Len(s) >= Len(prefix) /\ SubSeq(s, 1, Len(prefix)) = prefix

\* String.prototype.indexOf(c), 1-based; 0 when c does not occur
IndexOf(s, c) ==
  IF \E i \in 1..Len(s) : s[i] = c
  THEN CHOOSE i \in 1..Len(s) : s[i] = c /\ \A j \in 1..(i - 1) : s[j] # c
  ELSE 0

\* String.prototype.split(c) for a one-character separator
RECURSIVE SplitOnFrom(_, _, _, _)
SplitOnFrom(s, c, i, cur) ==
  IF i > Len(s) THEN <<cur>>
  ELSE IF s[i] = c THEN <<cur>> \o SplitOnFrom(s, c, i + 1, <<>>)
  ELSE SplitOnFrom(s, c, i + 1, Append(cur, s[i]))

SplitOn(s, c) == SplitOnFrom(s, c, 1, <<>>)

\* Array.prototype.join(delim)
RECURSIVE Join(_, _)
Join(ss, delim) ==
  IF ss = <<>> THEN <<>>
  ELSE IF Len(ss) = 1 THEN ss[1]
  ELSE ss[1] \o delim \o Join(Tail(ss), delim)

\* ------------------------------------------------------------ term codec
\* term.replace(/~/g, "~~")
EscapeTermDropped(term) == term
EscapeTerm(term) ==
  Flatten([i \in 1..Len(term) |-> IF term[i] = "~" THEN <<"~", "~">> ELSE <<term[i]>>])

\* terms.map((term) => term.replace(/~/g, "~~")).join("~")
Encode(ts) == Join([i \in 1..Len(ts) |-> EscapeTerm(ts[i])], <<"~">>)

\* A match of /(?<!~)~(?!~)/ at position i of s.
IsLoneDelim(s, i) ==
  /\ s[i] = "~"
  /\ (i = 1 \/ s[i - 1] # "~")
  /\ (i = Len(s) \/ s[i + 1] # "~")

\* String.prototype.split(/(?<!~)~(?!~)/)
RECURSIVE SplitFrom(_, _, _)
SplitFrom(s, i, cur) ==
  IF i > Len(s) THEN <<cur>>
  ELSE IF IsLoneDelim(s, i) THEN <<cur>> \o SplitFrom(s, i + 1, <<>>)
  ELSE SplitFrom(s, i + 1, Append(cur, s[i]))

SplitLone(s) == SplitFrom(s, 1, <<>>)

\* each.replace(/~~/g, "~"): leftmost matches, not overlapping
RECURSIVE Unescape(_)
Unescape(s) ==
  IF Len(s) < 2 THEN s
  ELSE IF s[1] = "~" /\ s[2] = "~" THEN <<"~">> \o Unescape(SubSeq(s, 3, Len(s)))
  ELSE <<s[1]>> \o Unescape(Tail(s))

NonEmptyAny(each) == TRUE
NonEmpty(each) == Len(each) > 0

\* param.split(...).filter((each) => each.length > 0).map(...)
Decode(fragmentString) ==
  LET kept == SelectSeq(SplitLone(fragmentString), NonEmpty)
  IN [i \in 1..Len(kept) |-> Unescape(kept[i])]

\* ------------------------------------------------------ query building
\* useVersioning(): versions and latestVersion
Versions == {<<"1">>, <<"2">>}
LatestVersion == <<"2">>

\* The value of sourceVersion while no load has been started.
NoVersion == <<>>

\* The raw inputs of the search box.
Inputs == {<<"a">>, <<" ", "a", " ", "b">>}

\* tokenize(input): the words of the input, in order.
Tokenize(text) == SelectSeq(SplitOn(text, " "), LAMBDA word : Len(word) > 0)

\* query.term(terms, options): one clause; wildcard and presence default
\* to NONE and OPTIONAL.
Clause(ts, field, boost, wildcard, presence) ==
  [terms |-> ts, fields |-> <<field>>, boost |-> boost, wildcard |-> wildcard,
   presence |-> presence]

\* The callback of index.query: the clauses added to the query.
BuildQueryBoostsSwapped(ts, versioning, version) ==
  << Clause(ts, "title", 1, "NONE", "OPTIONAL"),
     Clause(ts, "title", 1, "TRAILING", "OPTIONAL"),
     Clause(ts, "content", 5, "NONE", "OPTIONAL"),
     Clause(ts, "content", 5, "TRAILING", "OPTIONAL") >>
    \o (IF versioning
        THEN << Clause(<<version>>, "version", 0, "NONE", "REQUIRED") >>
        ELSE <<>>)
BuildQueryVersionBoosted(ts, versioning, version) ==
  << Clause(ts, "title", 5, "NONE", "OPTIONAL"),
     Clause(ts, "title", 5, "TRAILING", "OPTIONAL"),
     Clause(ts, "content", 1, "NONE", "OPTIONAL"),
     Clause(ts, "content", 1, "TRAILING", "OPTIONAL") >>
    \o (IF versioning
        THEN << Clause(<<version>>, "version", 1, "NONE", "OPTIONAL") >>
        ELSE <<>>)
BuildQuery(ts, versioning, version) ==
  << Clause(ts, "title", 5, "NONE", "OPTIONAL"),
     Clause(ts, "title", 5, "TRAILING", "OPTIONAL"),
     Clause(ts, "content", 1, "NONE", "OPTIONAL"),
     Clause(ts, "content", 1, "TRAILING", "OPTIONAL") >>
    \o (IF versioning
        THEN << Clause(<<version>>, "version", 0, "NONE", "REQUIRED") >>
        ELSE <<>>)

\* The query engine, by its contract: a clause matches a token of its field
\* exactly, or as a prefix under a trailing wildcard; each match adds the
\* boost of its clause to the score; a document qualifies when some clause
\* matches it and every required clause does.
IndexedTokens == {<<>>, << <<"a">> >>, << <<"a">>, <<"a">> >>, << <<"a", "b">> >>, << <<"b">> >>}

IndexedDocuments ==
  [title : IndexedTokens, content : IndexedTokens, version : Versions]

FieldTokens(doc, field) ==
  CASE field = "title" -> doc.title
    [] field = "content" -> doc.content
    [] field = "version" -> <<doc.version>>

TermMatches(term, token, wildcard) ==
  IF wildcard = "TRAILING"
  THEN Len(term) <= Len(token) /\ SubSeq(token, 1, Len(term)) = term
  ELSE term = token

MatchCount(clause, doc) ==
  LET tokens == FieldTokens(doc, clause.fields[1])
  IN Cardinality({pair \in (1..Len(clause.terms)) \X (1..Len(tokens)) :
                    TermMatches(clause.terms[pair[1]], tokens[pair[2]], clause.wildcard)})

RECURSIVE ScoreOf(_, _)
ScoreOf(q, doc) ==
  IF q = <<>> THEN 0
  ELSE Head(q).boost * MatchCount(Head(q), doc) + ScoreOf(Tail(q), doc)

Qualifies(q, doc) ==
  /\ \E k \in 1..Len(q) : MatchCount(q[k], doc) > 0
  /\ \A k \in 1..Len(q) : q[k].presence = "REQUIRED" => MatchCount(q[k], doc) > 0

\* --------------------------------------------------------- result ranking
\* .slice(0, 8)
MaxSuggestions == 8

\* The value of documents.find(...) when no document matches.
Undefined == [undefined |-> TRUE]

\* Score sequences as index.query returns them: sorted by descending score.
RECURSIVE SortedScores(_, _)
SortedScores(n, top) ==
  IF n = 0 THEN {<<>>}
  ELSE UNION {{<<v>> \o rest : rest \in SortedScores(n - 1, v)} : v \in 0..top}

\* The i-th result refers to the document with id i.
QueryResults ==
  UNION {{[i \in 1..n |-> [ref |-> ToString(i), score |-> sc[i]]] :
            sc \in SortedScores(n, MaxScore)} : n \in 0..MaxResults}

\* The document table with ids 1..n, without the document `missing`
\* (0: none is missing).
DocumentRoute(id) ==
  IF id % 2 = 1 THEN <<"/", "d", "#", "s">> ELSE <<"/", "d">>

DocumentTable(n, missing) ==
  LET ids == SelectSeq([i \in 1..n |-> i], LAMBDA i : i # missing)
  IN [k \in 1..Len(ids) |-> [id |-> ids[k], sectionRoute |-> DocumentRoute(ids[k])]]

\* .filter((result) => result.score > 0)
KeepResultAny(result) == result.score >= 0
KeepResult(result) == result.score > 0

FilterScore(rs) == SelectSeq(rs, KeepResult)

\* .slice(0, 8)
SliceShort(rs) == SubSeq(rs, 1, Min(MaxSuggestions - 1, Len(rs)))
Slice(rs) == SubSeq(rs, 1, Min(MaxSuggestions, Len(rs)))

\* documents.find((document) => document.id.toString() === result.ref)
Find(docs, ref) ==
  LET hits == SelectSeq(docs, LAMBDA d : ToString(d.id) = ref)
  IN IF hits = <<>> THEN Undefined ELSE hits[1]

\* .map((result) => ({ document: ..., score: result.score, terms }))
MapResultsNoTerms(rs, docs, ts) ==
  [i \in 1..Len(rs) |->
     [document |-> Find(docs, rs[i].ref), score |-> rs[i].score, terms |-> <<>>]]
MapResults(rs, docs, ts) ==
  [i \in 1..Len(rs) |->
     [document |-> Find(docs, rs[i].ref), score |-> rs[i].score, terms |-> ts]]

Rank(qr, docs, ts) == MapResults(Slice(FilterScore(qr)), docs, ts)

\* templates.suggestion reads document.pageTitle: a TypeError when the
\* document is undefined.
SuggestionThrows(rs) == \E i \in 1..Len(rs) : rs[i].document = Undefined

\* ------------------------------------ selection, navigation, highlighting
\* The terms of a suggestion: a letter, the delimiter and a reserved URL
\* character.
NavTerms == {<<"a">>, <<"~">>, <<"%">>}

NavTermSeqs == SeqsUpTo(NavTerms, MaxNavTerms) \ {<<>>}

\* sectionRoute values: no fragment, a fragment, an empty fragment, and a
\* route with a second "#".
Routes ==
  { <<"/", "d">>,
    <<"/", "d", "#", "s">>,
    <<"/", "p", "#">>,
    <<"/", "d", "#", "s", "#", "t">> }

\* siteConfig.baseUrl, docsBasePath and blogBasePath of the generated module
BaseUrl == <<"/">>
DocsBasePath == <<"d">>
BlogBasePath == <<"b">>

HighlightName == <<"h", "i", "g", "h", "l", "i", "g", "h", "t">>

\* encodeURIComponent on one character: unreserved characters stay, the
\* others become the %XX of their UTF-8 bytes.
PercentEncodeChar(c) ==
  CASE c = "%" -> <<"%", "2", "5">>
    [] c = "é" -> <<"%", "C", "3", "%", "A", "9">>
    [] c = "#" -> <<"%", "2", "3">>
    [] c = "&" -> <<"%", "2", "6">>
    [] c = "=" -> <<"%", "3", "D">>
    [] c = "?" -> <<"%", "3", "F">>
    [] c = "/" -> <<"%", "2", "F">>
    [] OTHER -> <<c>>

\* encodeURIComponent
EncodeURIComponent(s) == Flatten([i \in 1..Len(s) |-> PercentEncodeChar(s[i])])

\* The url built by the autocomplete:selected handler.  `hash` is undefined
\* or "" when the route has no or an empty fragment: both fail `if (hash)`,
\* and both are <<>> here.
SelectedUrlHashFirst(route, ts) ==
  LET parts == SplitOn(route, "#")
      hash == IF Len(parts) >= 2 THEN parts[2] ELSE <<>>
  IN parts[1] \o (IF hash # <<>> THEN <<"#">> \o hash ELSE <<>>)
       \o <<"?">> \o HighlightName \o <<"=">> \o EncodeURIComponent(Encode(ts))
SelectedUrl(route, ts) ==
  LET parts == SplitOn(route, "#")
      path == parts[1]
      hash == IF Len(parts) >= 2 THEN parts[2] ELSE <<>>
  IN path \o <<"?">> \o HighlightName \o <<"=">> \o EncodeURIComponent(Encode(ts))
       \o (IF hash # <<>> THEN <<"#">> \o hash ELSE <<>>)

\* history.push(url): the router's location of a path string (the hash
\* starts at the first "#", the search at the first "?" before it).
ParsePath(u) ==
  LET hashIndex == IndexOf(u, "#")
      hash == IF hashIndex # 0 THEN SubSeq(u, hashIndex, Len(u)) ELSE <<>>
      rest == IF hashIndex # 0 THEN SubSeq(u, 1, hashIndex - 1) ELSE u
      searchIndex == IndexOf(rest, "?")
      search == IF searchIndex # 0 THEN SubSeq(rest, searchIndex, Len(rest)) ELSE <<>>
      pathname == IF searchIndex # 0 THEN SubSeq(rest, 1, searchIndex - 1) ELSE rest
  IN [pathname |-> pathname,
      search |-> IF search = <<"?">> THEN <<>> ELSE search,
      hash |-> IF hash = <<"#">> THEN <<>> ELSE hash]

\* getQueryParamter(location, name): <<>> is null, <<v>> is the string v.
Null == <<>>

GetQueryParamter(loc, name) ==
  LET search == IF IndexOf(loc.search, "?") = 1 THEN Tail(loc.search) ELSE loc.search
      prefix == name \o <<"=">>
      pairs == SelectSeq(SplitOn(search, "&"), LAMBDA pair : StartsWith(pair, prefix))
  IN IF pairs = <<>> THEN Null
     ELSE <<SubSeq(pairs[1], Len(prefix) + 1, Len(pairs[1]))>>

\* !param
Falsy(p) == p = Null \/ p[1] = <<>>

\* isDocsOrBlog(baseUrl)
IsDocsOnly(pathname) == StartsWith(pathname, BaseUrl \o DocsBasePath)
IsDocsOrBlog(pathname) ==
  \/ StartsWith(pathname, BaseUrl \o DocsBasePath)
  \/ StartsWith(pathname, BaseUrl \o BlogBasePath)

\* The pages a navigation can show: which of the two root elements exist.
Doms == {{"article", "main"}, {"main"}, {}}

\* Locations reached by following a link or typing a URL.
Str(loc) == [pathname |-> loc[1], search |-> loc[2], hash |-> <<>>]

OtherLocations ==
  { Str(<< <<"/", "d">>, <<>> >>),
    Str(<< <<"/", "p">>, <<"?">> \o HighlightName \o <<"=", "a">> >>),
    Str(<< <<"/", "d">>, <<"?">> \o HighlightName \o <<"=", "~">> >>),
    Str(<< <<"/", "p">>, <<"?">> \o HighlightName \o <<"=">> >>),
    Str(<< <<"/", "b">>, <<"?", "x", "=", "a", "&">> \o HighlightName \o <<"=", "a", "~", "a">> >>) }

\* mark.unmark(options) on the root the Mark instance was created for
Unmark(ms, root) == {m \in ms : m.root # root}

\* The cleanup React runs before the effect runs again: the function the
\* previous run returned, if it returned one.
PreviousTeardownSkipped(ms, td) == ms
PreviousTeardown(ms, td) == IF td = "none" THEN ms ELSE Unmark(ms, td)

\* The page after a route change: marks inside an element that is no
\* longer on the page are gone with it.
Commit(ms, d) == {m \in ms : m.root \in d}

\* -------------------------------------------------------------- load gate
\* if (indexState.current !== "empty") return;
GateOpenUnlessDone(state) == state # "done"
GateOpenAlways(state) == TRUE
GateOpen(state) == state = "empty"

NoIconClick == [pc |-> "none", expanded |-> FALSE]

\* loadIndex() up to its await: the gate, then both loads are started.  The
\* source that this call creates after the await closes over the
\* versionToSearch of the render the call belongs to.
LoadIndexStart ==
  IF GateOpen(indexState)
  THEN /\ indexState' = "loading"
       /\ indexFetch' = IF production THEN "pending" ELSE "resolved"
       /\ autoCompleteLoad' = "pending"
       /\ fetchIndexCalls' = fetchIndexCalls + 1
       /\ fetchAutoCompleteCalls' = fetchAutoCompleteCalls + 1
       /\ loadPc' = "awaiting"
       /\ sourceVersion' = versionToSearch
  ELSE UNCHANGED <<indexState, indexFetch, autoCompleteLoad, fetchIndexCalls,
                   fetchAutoCompleteCalls, loadPc, sourceVersion>>

\* One more of the bounded number of load intents.
Intent ==
  /\ intents < MaxIntents
  /\ intents' = intents + 1
  /\ lateIntent' = (lateIntent \/ loadPc = "failed")

OnInputFocus ==
  /\ ~inputFocused
  /\ Intent
  /\ inputFocused' = TRUE
  /\ focusAfterIndexLoaded' = TRUE
  /\ LoadIndexStart
  /\ UNCHANGED <<production, widgets, isSearchBarExpanded, iconClick>>
  /\ UNCHANGED notGate

OnInputBlur ==
  /\ inputFocused
  /\ inputFocused' = FALSE
  /\ isSearchBarExpanded' = ~isSearchBarExpanded
  /\ UNCHANGED <<production, indexState, focusAfterIndexLoaded, indexFetch,
                 autoCompleteLoad, fetchIndexCalls, fetchAutoCompleteCalls, loadPc,
                 widgets, iconClick, intents, lateIntent>>
  /\ UNCHANGED <<notGate, sourceVersion>>

OnInputMouseOver ==
  /\ Intent
  /\ LoadIndexStart
  /\ UNCHANGED <<production, focusAfterIndexLoaded, widgets, inputFocused,
                 isSearchBarExpanded, iconClick>>
  /\ UNCHANGED notGate

\* onIconClick: when loadIndex passes the gate the handler waits for the
\* load; when it returns at once the rest of the handler runs before any
\* other event.  searchBarRef.current.focus() fires onInputFocus.
OnIconClick ==
  /\ Intent
  /\ LoadIndexStart
  /\ IF GateOpen(indexState)
     THEN /\ iconClick' = [pc |-> "awaiting", expanded |-> isSearchBarExpanded]
          /\ UNCHANGED <<focusAfterIndexLoaded, inputFocused, isSearchBarExpanded>>
     ELSE /\ inputFocused' = TRUE
          /\ focusAfterIndexLoaded' = TRUE
          /\ isSearchBarExpanded' = ~isSearchBarExpanded
          /\ UNCHANGED iconClick
  /\ UNCHANGED <<production, widgets>>
  /\ UNCHANGED notGate

FetchIndexResolve ==
  /\ indexFetch = "pending"
  /\ indexFetch' = "resolved"
  /\ UNCHANGED <<production, indexState, focusAfterIndexLoaded, autoCompleteLoad,
                 fetchIndexCalls, fetchAutoCompleteCalls, loadPc, widgets,
                 inputFocused, isSearchBarExpanded, iconClick, intents, lateIntent>>
  /\ UNCHANGED <<notGate, sourceVersion>>

\* A rejected fetch rejects Promise.all: loadIndex throws at its await.
FetchIndexRejectReset ==
  /\ indexFetch = "pending"
  /\ indexFetch' = "rejected"
  /\ loadPc' = IF loadPc = "awaiting" THEN "failed" ELSE loadPc
  /\ indexState' = "empty"
  /\ UNCHANGED <<production, focusAfterIndexLoaded, autoCompleteLoad,
                 fetchIndexCalls, fetchAutoCompleteCalls, widgets, inputFocused,
                 isSearchBarExpanded, iconClick, intents, lateIntent>>
  /\ UNCHANGED <<notGate, sourceVersion>>
FetchIndexReject ==
  /\ indexFetch = "pending"
  /\ indexFetch' = "rejected"
  /\ loadPc' = IF loadPc = "awaiting" THEN "failed" ELSE loadPc
  /\ UNCHANGED <<production, indexState, focusAfterIndexLoaded, autoCompleteLoad,
                 fetchIndexCalls, fetchAutoCompleteCalls, widgets, inputFocused,
                 isSearchBarExpanded, iconClick, intents, lateIntent>>
  /\ UNCHANGED <<notGate, sourceVersion>>

FetchAutoCompleteResolve ==
  /\ autoCompleteLoad = "pending"
  /\ autoCompleteLoad' = "resolved"
  /\ UNCHANGED <<production, indexState, focusAfterIndexLoaded, indexFetch,
                 fetchIndexCalls, fetchAutoCompleteCalls, loadPc, widgets,
                 inputFocused, isSearchBarExpanded, iconClick, intents, lateIntent>>
  /\ UNCHANGED <<notGate, sourceVersion>>

FetchAutoCompleteReject ==
  /\ autoCompleteLoad = "pending"
  /\ autoCompleteLoad' = "rejected"
  /\ loadPc' = IF loadPc = "awaiting" THEN "failed" ELSE loadPc
  /\ UNCHANGED <<production, indexState, focusAfterIndexLoaded, indexFetch,
                 fetchIndexCalls, fetchAutoCompleteCalls, widgets, inputFocused,
                 isSearchBarExpanded, iconClick, intents, lateIntent>>
  /\ UNCHANGED <<notGate, sourceVersion>>

\* loadIndex() after its await: the widget is created, the input focused
\* when a focus was recorded, the state set to "done".
LoadIndexResumeEarly ==
  /\ loadPc = "awaiting"
  /\ indexFetch = "resolved"
  /\ widgets' = widgets + 1
  /\ inputFocused' = (inputFocused \/ focusAfterIndexLoaded)
  /\ indexState' = "done"
  /\ loadPc' = "done"
  /\ UNCHANGED <<production, focusAfterIndexLoaded, indexFetch, autoCompleteLoad,
                 fetchIndexCalls, fetchAutoCompleteCalls, isSearchBarExpanded,
                 iconClick, intents, lateIntent>>
  /\ UNCHANGED <<notGate, sourceVersion>>
LoadIndexResumeNoFocus ==
  /\ loadPc = "awaiting"
  /\ indexFetch = "resolved"
  /\ autoCompleteLoad = "resolved"
  /\ widgets' = widgets + 1
  /\ indexState' = "done"
  /\ loadPc' = "done"
  /\ UNCHANGED <<production, focusAfterIndexLoaded, indexFetch, autoCompleteLoad,
                 fetchIndexCalls, fetchAutoCompleteCalls, isSearchBarExpanded,
                 iconClick, intents, lateIntent, inputFocused>>
  /\ UNCHANGED <<notGate, sourceVersion>>
LoadIndexResume ==
  /\ loadPc = "awaiting"
  /\ indexFetch = "resolved"
  /\ autoCompleteLoad = "resolved"
  /\ widgets' = widgets + 1
  /\ inputFocused' = (inputFocused \/ focusAfterIndexLoaded)
  /\ indexState' = "done"
  /\ loadPc' = "done"
  /\ UNCHANGED <<production, focusAfterIndexLoaded, indexFetch, autoCompleteLoad,
                 fetchIndexCalls, fetchAutoCompleteCalls, isSearchBarExpanded,
                 iconClick, intents, lateIntent>>
  /\ UNCHANGED <<notGate, sourceVersion>>

\* onIconClick after `await loadIndex()` of the click that started the
\* load: focus and toggle, or nothing when the load threw.
IconClickResume ==
  /\ iconClick.pc = "awaiting"
  /\ loadPc \in {"done", "failed"}
  /\ iconClick' = NoIconClick
  /\ IF loadPc = "done"
     THEN /\ inputFocused' = TRUE
          /\ focusAfterIndexLoaded' = TRUE
          /\ isSearchBarExpanded' = ~iconClick.expanded
     ELSE UNCHANGED <<inputFocused, focusAfterIndexLoaded, isSearchBarExpanded>>
  /\ UNCHANGED <<production, indexState, indexFetch, autoCompleteLoad,
                 fetchIndexCalls, fetchAutoCompleteCalls, loadPc, widgets, intents,
                 lateIntent>>
  /\ UNCHANGED <<notGate, sourceVersion>>

\* The effect that follows the location: versionToSearch becomes the
\* version determined from the URL.
VersionEffect ==
  /\ versioningEnabled
  /\ \E version \in Versions : versionToSearch' = version
  /\ UNCHANGED <<codecVars, rankVars, navVars, gateVars, versioningEnabled,
                 sourceVersion, input, query>>

GateInit ==
  /\ production \in BOOLEAN
  /\ indexState = "empty"
  /\ focusAfterIndexLoaded = FALSE
  /\ indexFetch = "none"
  /\ autoCompleteLoad = "none"
  /\ fetchIndexCalls = 0
  /\ fetchAutoCompleteCalls = 0
  /\ loadPc = "idle"
  /\ widgets = 0
  /\ inputFocused = FALSE
  /\ isSearchBarExpanded = FALSE
  /\ iconClick = NoIconClick
  /\ intents = 0
  /\ lateIntent = FALSE

\* The gate after one focus intent and a completed load.
GateReady ==
  /\ production = TRUE
  /\ indexState = "done"
  /\ focusAfterIndexLoaded = TRUE
  /\ indexFetch = "resolved"
  /\ autoCompleteLoad = "resolved"
  /\ fetchIndexCalls = 1
  /\ fetchAutoCompleteCalls = 1
  /\ loadPc = "done"
  /\ widgets = 1
  /\ inputFocused = TRUE
  /\ isSearchBarExpanded = FALSE
  /\ iconClick = NoIconClick
  /\ intents = 1
  /\ lateIntent = FALSE


\* ------------------------------------------------------- the other parts
CodecOff ==
  /\ termSeq = <<>>
  /\ fragment = <<>>
  /\ decoded = <<>>
  /\ codecPc = "off"

QueryOff ==
  /\ versioningEnabled = FALSE
  /\ versionToSearch = LatestVersion
  /\ sourceVersion = LatestVersion
  /\ input = <<>>
  /\ query = <<>>

RankOff ==
  /\ queryResult = <<>>
  /\ documents = <<>>
  /\ results = <<>>
  /\ rankPc = "off"

HomeLocation == [pathname |-> BaseUrl, search |-> <<>>, hash |-> <<>>]

NavOff ==
  /\ suggestion = [document |-> [sectionRoute |-> <<>>], terms |-> <<>>]
  /\ location = HomeLocation
  /\ dom = {"main"}
  /\ pendingEffect = FALSE
  /\ lastChange = "mounted"
  /\ pushes = 0
  /\ url = <<>>
  /\ navigations = 0
  /\ param = Null
  /\ terms = <<>>
  /\ outcome = "none"
  /\ marks = {}
  /\ teardown = "none"
  /\ runs = 0

\* source: (input, cb) => { ...; cb(results) }, once autocomplete() has
\* installed it.
Source ==
  /\ widgets >= 1
  /\ rankPc = "idle"
  /\ \E text \in Inputs :
       /\ input' = text
       /\ query' = BuildQuery(Tokenize(text), versioningEnabled, sourceVersion)
       /\ results' = Rank(queryResult, documents, Tokenize(text))
  /\ rankPc' = "delivered"
  /\ UNCHANGED <<queryResult, documents>>
  /\ UNCHANGED notRank

\* The dropdown renders every delivered result with templates.suggestion.
RenderSuggestions ==
  /\ rankPc = "delivered"
  /\ rankPc' = IF SuggestionThrows(results) THEN "crashed" ELSE "rendered"
  /\ UNCHANGED <<queryResult, documents, results, input, query>>
  /\ UNCHANGED notRank

\* The suggestions whose selection is explored: the first and the last.
Selectable(n) == {1, n} \cap (1..n)

\* The autocomplete:selected handler on one of the rendered suggestions.
\* The handler runs once for every call of autoComplete(...) that
\* registered it on the input.
SelectRendered ==
  /\ rankPc = "rendered"
  /\ navigations < MaxNavigations
  /\ \E i \in Selectable(Len(results)) :
       url' = SelectedUrl(results[i].document.sectionRoute, results[i].terms)
  /\ rankPc' = "selected"
  /\ pushes' = pushes + widgets
  /\ navigations' = navigations + 1
  /\ lastChange' = "selected"
  /\ location' = ParsePath(url')
  /\ pendingEffect' = TRUE
  /\ UNCHANGED <<suggestion, dom, param, terms, outcome, marks, teardown, runs>>
  /\ UNCHANGED <<codecVars, gateVars, queryVars, queryResult, documents, results>>

\* The component after its first render.  The index that the load will
\* deliver holds one matching document in production and nothing in
\* development.
Init ==
  /\ GateInit
  /\ CodecOff
  /\ NavOff
  /\ queryResult = (IF production THEN <<[ref |-> "1", score |-> 1]>> ELSE <<>>)
  /\ documents = DocumentTable(Len(queryResult), 0)
  /\ results = <<>>
  /\ rankPc = "idle"
  /\ versioningEnabled \in BOOLEAN
  /\ versionToSearch = LatestVersion
  /\ sourceVersion = NoVersion
  /\ input = <<>>
  /\ query = <<>>

Next ==
  \/ OnInputFocus
  \/ OnInputBlur
  \/ OnInputMouseOver
  \/ OnIconClick
  \/ FetchIndexResolve
  \/ FetchIndexReject
  \/ FetchAutoCompleteResolve
  \/ FetchAutoCompleteReject
  \/ LoadIndexResume
  \/ IconClickResume
  \/ VersionEffect
  \/ Source
  \/ RenderSuggestions
  \/ SelectRendered

Spec == Init /\ [][Next]_vars

\* The continuations that follow an await run once the awaited promise has
\* settled.
SpecLive ==
  Init /\ [][Next]_vars /\ WF_vars(LoadIndexResume) /\ WF_vars(IconClickResume)

\* ------------------------------------------------- term codec: the runs
\* Terms over a letter and the delimiter, and the terms of the stated cases.
CodecChars == {"a", "~"}

CodecTerms ==
  (StringsUpTo(CodecChars, MaxTermLen) \ {<<>>}) \cup {<<"b">>, <<"a", "~", "b">>}

CodecTermSeqs == SeqsUpTo(CodecTerms, MaxTerms)

CodecInit ==
  /\ RankOff /\ NavOff /\ GateReady /\ QueryOff
  /\ termSeq \in CodecTermSeqs
  /\ fragment = <<>>
  /\ decoded = <<>>
  /\ codecPc = "start"

\* The encoding the selection handler computes for the terms.
CodecEncode ==
  /\ codecPc = "start"
  /\ fragment' = Encode(termSeq)
  /\ codecPc' = "encoded"
  /\ UNCHANGED <<termSeq, decoded>>
  /\ UNCHANGED notCodec

\* The decoding the highlight effect computes for the fragment.
CodecDecode ==
  /\ codecPc = "encoded"
  /\ decoded' = Decode(fragment)
  /\ codecPc' = "decoded"
  /\ UNCHANGED <<termSeq, fragment>>
  /\ UNCHANGED notCodec

CodecNext ==
  \/ CodecEncode
  \/ CodecDecode

SpecCodec == CodecInit /\ [][CodecNext]_vars

\* ---------------------------------------------- result ranking: the runs
RankInit ==
  /\ CodecOff /\ NavOff /\ GateReady /\ QueryOff
  /\ queryResult \in QueryResults
  /\ \E missing \in {0, 1, Len(queryResult)} :
       documents = DocumentTable(Len(queryResult), missing)
  /\ results = <<>>
  /\ rankPc = "idle"



RankNext ==
  \/ Source
  \/ RenderSuggestions
  \/ SelectRendered

SpecRank == RankInit /\ [][RankNext]_vars

\* ------------------------------- selection, navigation, highlight effect
\* The index is loaded and the dropdown shows one suggestion; the page has
\* just been mounted, so the effect is still to run.
NavInit ==
  /\ CodecOff /\ RankOff /\ GateReady /\ QueryOff
  /\ \E route \in Routes, ts \in NavTermSeqs :
       suggestion = [document |-> [sectionRoute |-> route], terms |-> ts]
  /\ location = HomeLocation
  /\ dom = {"main"}
  /\ pendingEffect = TRUE
  /\ lastChange = "mounted"
  /\ pushes = 0
  /\ url = <<>>
  /\ navigations = 0
  /\ param = Null
  /\ terms = <<>>
  /\ outcome = "none"
  /\ marks = {}
  /\ teardown = "none"
  /\ runs = 0

\* A new location is rendered: page d replaces the current page.
RouteChange(loc, d) ==
  /\ navigations < MaxNavigations
  /\ navigations' = navigations + 1
  /\ location' = loc
  /\ dom' = d
  /\ marks' = Commit(marks, d)
  /\ pendingEffect' = TRUE
  /\ UNCHANGED <<suggestion, param, terms, outcome, teardown, runs>>

\* The autocomplete:selected handler, once for every registration.
Selected ==
  /\ url' = SelectedUrl(suggestion.document.sectionRoute, suggestion.terms)
  /\ pushes' = pushes + widgets
  /\ lastChange' = "selected"
  /\ \E d \in Doms : RouteChange(ParsePath(url'), d)
  /\ UNCHANGED notNav

\* Any other change of the location: a link, the back button, a typed URL.
Navigated ==
  /\ lastChange' = "navigated"
  /\ \E loc \in OtherLocations, d \in Doms : RouteChange(loc, d)
  /\ UNCHANGED <<pushes, url>>
  /\ UNCHANGED notNav

\* The highlight effect, run by React after a render with a new location:
\* first the teardown the previous run returned, then the effect body.
HighlightEffect ==
  /\ pendingEffect
  /\ pendingEffect' = FALSE
  /\ LET cleaned == PreviousTeardown(marks, teardown)
         p == GetQueryParamter(location, HighlightName)
         root == IF IsDocsOrBlog(location.pathname) THEN "article" ELSE "main"
         ts == Decode(p[1])
     IN IF Falsy(p)
        THEN /\ outcome' = "noparam"
             /\ param' = p
             /\ terms' = <<>>
             /\ marks' = cleaned
             /\ teardown' = "none"
             /\ runs' = runs
        ELSE IF root \notin dom
        THEN /\ outcome' = "noroot"
             /\ param' = p
             /\ terms' = <<>>
             /\ marks' = cleaned
             /\ teardown' = "none"
             /\ runs' = runs
        ELSE IF Len(ts) = 0
        THEN /\ outcome' = "noterms"
             /\ param' = p
             /\ terms' = ts
             /\ marks' = cleaned
             /\ teardown' = "none"
             /\ runs' = runs
        ELSE /\ outcome' = "marked"
             /\ param' = p
             /\ terms' = ts
             /\ runs' = runs + 1
             /\ \E found \in BOOLEAN :
                  marks' = cleaned \cup
                    (IF found THEN {[run |-> runs + 1, root |-> root]} ELSE {})
             /\ teardown' = root
  /\ UNCHANGED <<suggestion, location, dom, lastChange, pushes, url, navigations>>
  /\ UNCHANGED notNav

NavNext ==
  \/ Selected
  \/ Navigated
  \/ HighlightEffect

SpecNav == NavInit /\ [][NavNext]_vars

\* ------------------------------------------------------------ properties
\* C1: decoding the encoding of any sequence of non-empty terms (the
\* delimiter allowed anywhere in a term) gives the sequence back.
C1_RoundTrip == codecPc = "decoded" => decoded = termSeq

\* C2: whatever the number and order of the load intents, the index fetch
\* and the autocomplete load are each started at most once: never before
\* the gate has left "empty", exactly once afterwards.
C2_SingleLoad ==
  /\ fetchIndexCalls = (IF indexState = "empty" THEN 0 ELSE 1)
  /\ fetchAutoCompleteCalls = (IF indexState = "empty" THEN 0 ELSE 1)

C2_ThreeIntentsOneLoad ==
  /\ intents >= 3
  /\ loadPc = "awaiting"
  /\ fetchIndexCalls = 1
  /\ fetchAutoCompleteCalls = 1

\* C3: the load state only moves forward along empty -> loading -> done,
\* done is final, and after a failed load it stays "loading": no later
\* intent starts a fetch or creates the widget.
C3_ForwardOnly ==
  /\ [](loadPc = "failed" => (indexState = "loading" /\ widgets = 0))
  /\ [][/\ indexState = "loading" => indexState' \in {"loading", "done"}
        /\ indexState = "done" => indexState' = "done"
        /\ loadPc = "failed" =>
             /\ indexState' = "loading"
             /\ fetchIndexCalls' = fetchIndexCalls
             /\ fetchAutoCompleteCalls' = fetchAutoCompleteCalls
             /\ widgets' = widgets]_vars

C3_IntentAfterFailure ==
  /\ lateIntent
  /\ loadPc = "failed"
  /\ indexState = "loading"

\* C4: after a selection, the terms the highlight effect extracts from the
\* pushed URL are the terms of the selected result.
C4_HighlightTransport ==
  (lastChange = "selected" /\ ~pendingEffect /\ outcome \in {"marked", "noterms"})
    => terms = suggestion.terms

\* C5: every result passed to the callback has a document of the document
\* table, and rendering the suggestions never fails on a missing document.
C5_MissingDocumentDropped ==
  /\ \A i \in 1..Len(results) :
       /\ results[i].document # Undefined
       /\ \E k \in 1..Len(documents) : documents[k] = results[i].document
  /\ rankPc # "crashed"

\* C6: the marks on the page are those of at most one run of the highlight
\* effect, and once the effect has run they are the marks of that run only.
C6_TeardownBeforeReapply ==
  /\ Cardinality({m.run : m \in marks}) <= 1
  /\ ~pendingEffect => \A m \in marks : m.run = runs /\ outcome = "marked"

C6_SecondRunMarks ==
  /\ ~pendingEffect
  /\ runs >= 2
  /\ marks # {}

\* The route of the suggestion as `path` or `path#fragment`.
RouteHashCount(route) == Cardinality({i \in 1..Len(route) : route[i] = "#"})

RoutePath(route) ==
  IF IndexOf(route, "#") = 0 THEN route ELSE SubSeq(route, 1, IndexOf(route, "#") - 1)

RouteFragment(route) ==
  IF IndexOf(route, "#") = 0 THEN <<>>
  ELSE SubSeq(route, IndexOf(route, "#") + 1, Len(route))

ExpectedUrl(route, ts) ==
  RoutePath(route) \o <<"?", "h", "i", "g", "h", "l", "i", "g", "h", "t", "=">>
    \o EncodeURIComponent(Encode(ts))
    \o (IF RouteFragment(route) = <<>> THEN <<>> ELSE <<"#">> \o RouteFragment(route))

\* C7: a selection of a result with route `path` or `path#fragment` pushes
\* exactly one URL: path, "?highlight=", the percent-encoded encoding of the
\* terms, then "#" and the fragment when the fragment is not empty.
C7_NavigationUrl ==
  [][(/\ lastChange' = "selected"
      /\ navigations' = navigations + 1
      /\ RouteHashCount(suggestion.document.sectionRoute) <= 1)
       => /\ pushes' = pushes + 1
          /\ url' = ExpectedUrl(suggestion.document.sectionRoute, suggestion.terms)]_vars

C7_FragmentRoutePushed ==
  /\ lastChange = "selected"
  /\ pushes = 1
  /\ suggestion.document.sectionRoute = <<"/", "d", "#", "s">>
  /\ suggestion.terms = << <<"%">>, <<"a">> >>

\* The number of results with a positive score among the first j.
PositivesUpTo(j) == Cardinality({i \in 1..j : queryResult[i].score > 0})

\* results[k] is the ranked form of queryResult[j].
RankedFrom(k, j) ==
  /\ results[k].score = queryResult[j].score
  /\ \/ results[k].document = Undefined
     \/ ToString(results[k].document.id) = queryResult[j].ref

\* C8: no result with score 0 is in the ranked output, and every result
\* with a positive score among the first 8 such results is.
C8_ZeroScoreFiltered ==
  rankPc # "idle" =>
    /\ \A k \in 1..Len(results) : results[k].score > 0
    /\ \A j \in 1..Len(queryResult) :
         (queryResult[j].score > 0 /\ PositivesUpTo(j) <= 8)
           => /\ PositivesUpTo(j) <= Len(results)
              /\ RankedFrom(PositivesUpTo(j), j)

C8_ZeroScoreSeen ==
  /\ rankPc = "delivered"
  /\ Len(results) >= 1
  /\ \E j \in 1..Len(queryResult) : queryResult[j].score = 0

\* C9: the ranked output is the first min(8, n) of the n results with a
\* positive score, in their order; they are the highest-scoring ones, and
\* 20 matching documents give exactly 8 entries.
C9_TruncationOrder ==
  rankPc # "idle" =>
    LET n == PositivesUpTo(Len(queryResult))
    IN /\ Len(results) = Min(8, n)
       /\ \A k \in 1..Len(results) :
            \E j \in 1..Len(queryResult) :
              /\ queryResult[j].score > 0
              /\ PositivesUpTo(j) = k
              /\ RankedFrom(k, j)
       /\ \A k \in 1..Len(results) : \A j \in (Len(results) + 1)..Len(queryResult) :
            queryResult[j].score <= results[k].score
       /\ n = 20 => Len(results) = 8

C9_TwentyMatches ==
  /\ rankPc = "delivered"
  /\ PositivesUpTo(Len(queryResult)) = 20
  /\ Len(results) = 8

\* C10: encode(["a~b"]) is "a~~b", decode("a~~b") is ["a~b"] and
\* decode("a~b") is ["a", "b"].
C10_EscapingCases ==
  /\ (codecPc # "start" /\ termSeq = << <<"a", "~", "b">> >>)
       => fragment = <<"a", "~", "~", "b">>
  /\ (codecPc = "decoded" /\ fragment = <<"a", "~", "~", "b">>)
       => decoded = << <<"a", "~", "b">> >>
  /\ (codecPc = "decoded" /\ fragment = <<"a", "~", "b">>)
       => decoded = << <<"a">>, <<"b">> >>

C10_EscapedDecoded ==
  /\ codecPc = "decoded"
  /\ termSeq = << <<"a", "~", "b">> >>
  /\ fragment = <<"a", "~", "~", "b">>

\* The value of the `highlight` parameter of the location is absent, empty
\* or nothing but lone delimiters.
NothingToHighlight ==
  LET p == GetQueryParamter(location, <<"h", "i", "g", "h", "l", "i", "g", "h", "t">>)
  IN \/ p = <<>>
     \/ \A i \in 1..Len(p[1]) :
          /\ p[1][i] = "~"
          /\ i > 1 => p[1][i - 1] # "~"

\* C11: when the highlight parameter is absent, empty or decodes to no
\* term, the run of the effect extracts the empty sequence, leaves no mark
\* on the page and registers no teardown.
C11_EmptyHighlight ==
  (~pendingEffect /\ NothingToHighlight) =>
    /\ outcome \in {"noparam", "noroot", "noterms"}
    /\ terms = <<>>
    /\ marks = {}
    /\ teardown = "none"

C11_LoneDelimiterSeen ==
  /\ ~pendingEffect
  /\ navigations >= 2
  /\ outcome = "noterms"
  /\ location.search = <<"?", "h", "i", "g", "h", "l", "i", "g", "h", "t", "=", "~">>

\* The path of the location is under the docs or the blog base path.
UnderDocsOrBlog ==
  /\ Len(location.pathname) >= 2
  /\ location.pathname[1] = "/"
  /\ location.pathname[2] \in {"d", "b"}

\* C16: the effect marks inside `article` on a docs or blog path and inside
\* `main` elsewhere; when that element is not on the page the run adds no
\* mark, registers no teardown and ends without an error.
C16_ContentRoot ==
  ~pendingEffect =>
    LET root == IF UnderDocsOrBlog THEN "article" ELSE "main"
    IN /\ \A m \in marks : m.root = root
       /\ teardown \in {"none", root}
       /\ root \notin dom => (marks = {} /\ teardown = "none" /\ outcome \in {"noparam", "noroot"})
       /\ outcome = "marked" => (root \in dom /\ teardown = root)

C16_BlogArticleMarked ==
  /\ ~pendingEffect
  /\ outcome = "marked"
  /\ location.pathname = <<"/", "b">>
  /\ marks # {}
  /\ \A m \in marks : m.root = "article"

\* C12: the state is "done", the source is installed, or a query has been
\* executed only when both the index fetch and the load of the
\* autocomplete library have resolved.
C12_ReadyAfterBothLoads ==
  (indexState = "done" \/ widgets > 0 \/ rankPc # "idle")
    => (indexFetch = "resolved" /\ autoCompleteLoad = "resolved")

\* A query was executed in production, where the index is really fetched.
C12_QueryAfterBothLoads ==
  production /\ rankPc = "delivered" /\ indexState = "done"

\* The clauses of a query on the field version.
VersionClauses(q) == SelectSeq(q, LAMBDA clause : clause.fields = <<"version">>)

\* C13: with versioning enabled, the query that the source executes is
\* filtered by the version to search that is current when the query runs.
C13_QueryUsesCurrentVersion ==
  [][(versioningEnabled /\ rankPc = "idle" /\ rankPc' = "delivered")
       => VersionClauses(query') =
            << Clause(<<versionToSearch>>, "version", 0, "NONE", "REQUIRED") >>]_vars

\* C14: with versioning enabled the query holds exactly one clause on the
\* field version, on the version to search of the source, required and
\* with boost 0: only documents of that version qualify and every score is
\* the score of the four title and content clauses.  With versioning
\* disabled the query is the four title and content clauses alone.
C14_VersionClauseNeutral ==
  rankPc # "idle" =>
    IF versioningEnabled
    THEN /\ Len(query) = 5
         /\ VersionClauses(query) =
              << Clause(<<sourceVersion>>, "version", 0, "NONE", "REQUIRED") >>
         /\ \A doc \in IndexedDocuments :
              /\ Qualifies(query, doc) => doc.version = sourceVersion
              /\ ScoreOf(query, doc) = ScoreOf(SubSeq(query, 1, 4), doc)
    ELSE /\ Len(query) = 4
         /\ VersionClauses(query) = <<>>
         /\ \A k \in 1..4 : query[k].fields \in {<<"title">>, <<"content">>}

\* A query with the version clause ran, and the index holds a document of
\* the other version that the four other clauses match.
C14_OtherVersionExcluded ==
  /\ versioningEnabled
  /\ rankPc = "delivered"
  /\ \E doc \in IndexedDocuments :
       /\ doc.version # sourceVersion
       /\ ScoreOf(SubSeq(query, 1, 4), doc) > 0
       /\ ~Qualifies(query, doc)
       /\ Qualifies(SubSeq(query, 1, 4), doc)

\* C15: the query starts with four clauses over the tokens of the input,
\* exact and trailing-wildcard on title with boost 5, exact and
\* trailing-wildcard on content with boost 1; of two documents of one
\* version that hold the same tokens, one only in its title and the other
\* only in its content, the first scores at least as much.
C15_BoostOrdering ==
  rankPc # "idle" =>
    /\ SubSeq(query, 1, 4) =
         << Clause(Tokenize(input), "title", 5, "NONE", "OPTIONAL"),
            Clause(Tokenize(input), "title", 5, "TRAILING", "OPTIONAL"),
            Clause(Tokenize(input), "content", 1, "NONE", "OPTIONAL"),
            Clause(Tokenize(input), "content", 1, "TRAILING", "OPTIONAL") >>
    /\ \A inTitle, inContent \in IndexedDocuments :
         ( /\ inTitle.content = <<>>
           /\ inContent.title = <<>>
           /\ inTitle.title = inContent.content
           /\ inTitle.version = inContent.version )
         => ScoreOf(query, inTitle) >= ScoreOf(query, inContent)

\* A query of two tokens ran and a document matched in its title alone
\* scores strictly more than its twin matched in its content alone.
C15_TitleOutscoresContent ==
  /\ rankPc = "delivered"
  /\ Len(Tokenize(input)) = 2
  /\ \E inTitle, inContent \in IndexedDocuments :
       /\ inTitle.content = <<>>
       /\ inContent.title = <<>>
       /\ inTitle.title = inContent.content
       /\ inTitle.version = inContent.version
       /\ ScoreOf(query, inContent) > 0
       /\ ScoreOf(query, inTitle) > ScoreOf(query, inContent)

\* C17: every result of one query carries the tokens of the raw input of
\* that query, and the URL pushed for a selected result encodes those
\* tokens.
C17_TermsOfQuery ==
  /\ rankPc # "idle" =>
       \A i \in 1..Len(results) : results[i].terms = Tokenize(input)
  /\ rankPc = "selected" =>
       \E i \in 1..Len(results) :
         url = ExpectedUrl(results[i].document.sectionRoute, Tokenize(input))

\* A result of an input with surrounding spaces and two words was selected.
C17_TwoWordInputSelected ==
  /\ rankPc = "selected"
  /\ input = <<" ", "a", " ", "b">>
  /\ Len(results) >= 2
  /\ url = <<"/", "d", "?">> \o HighlightName \o <<"=", "a", "~", "b">>

\* C18: the focus and the toggle of an icon click, whether made by the
\* click at once or after its wait for the load, happen in a state in
\* which the index state is "done".
C18_IconClickWhenReady ==
  [][( \/ (intents' = intents + 1 /\ isSearchBarExpanded' # isSearchBarExpanded)
       \/ (iconClick.pc = "awaiting" /\ iconClick'.pc = "none" /\ loadPc = "done") )
       => indexState = "done"]_vars

\* C19: whatever the intents, at most one autocomplete widget is created
\* and its selected handler registered once, exactly one once the state
\* is "done"; the selection of a result has pushed exactly one URL.
C19_OneWidgetOnePush ==
  /\ widgets <= 1
  /\ indexState = "done" => widgets = 1
  /\ rankPc = "selected" => pushes = 1

\* A result was selected in a session with three or more intents.
C19_SelectionAfterManyIntents ==
  /\ intents >= 3
  /\ isSearchBarExpanded
  /\ rankPc = "selected"
  /\ pushes = 1

\* C20: once a load has been started and both the index fetch and the
\* load of the autocomplete library have resolved, the index state
\* becomes "done"; once "done" it stays "done"; and when the load
\* completes after the input received focus, the input is focused.
C20_EventuallyReady ==
  /\ (loadPc = "awaiting" /\ indexFetch = "resolved" /\ autoCompleteLoad = "resolved")
       ~> (indexState = "done")
  /\ [][indexState = "done" => indexState' = "done"]_vars
  /\ [][(loadPc = "awaiting" /\ loadPc' = "done" /\ focusAfterIndexLoaded)
          => inputFocused']_vars

\* The only intent was a focus, the input lost the focus while the load
\* was in flight, and the load completed.
C20_FocusedAfterBlur ==
  /\ production
  /\ intents = 1
  /\ isSearchBarExpanded
  /\ indexState = "done"
  /\ inputFocused
====
